---- MODULE Spec2Model ----
(***************************************************************************)
(* WanderWise backend (backend/server.py): the POST /generate-itinerary    *)
(* handler with its two suspension points (the generation call and the     *)
(* store insert), the GET routes, and the document store they share.       *)
(*                                                                         *)
(* Text is modelled as a sequence of tokens (an f-string is the sequence   *)
(* of its literal parts and its interpolated values), JSON values as       *)
(* tagged records, a datetime as seconds and microseconds, and an          *)
(* ISO-8601 string by its parts.                                           *)
(***************************************************************************)
EXTENDS Integers, Sequences, FiniteSets, TLC

\* ------------------------------------------------------------- bounds
MaxReq == 2          \* requests (one task each) in the concurrent specification
MaxSec == 1          \* the clock runs over seconds 0..MaxSec
MaxReqCap == 102     \* requests of the sequential client, past the read cap
MaxLegacy == 2       \* documents already in the store in the legacy specification
MaxBudget == 60      \* budgets -MaxBudget..MaxBudget in the cost specification

\* ------------------------------------------------- program constants
TripsCap == 100      \* to_list(100)
StatusOK == 200
StatusValidation == 422
StatusServerError == 500

VARIABLES
    store,           \* db.trip_itineraries: the documents, in insertion order
    pc,              \* per request: where its handler task stands
    request_body,    \* per request: the JSON body as posted
    trip_request,    \* per request: the validated TripRequest
    gen_calls,       \* per request: calls made to chat.send_message
    gen_outcome,     \* per request: what the awaited call returned or raised
    trip_itinerary,  \* per request: the TripItinerary object built
    trip_dict,       \* per request: the dict handed to insert_one
    response,        \* per request: the HTTP response sent
    now,             \* the wall clock
    next_uuid,       \* uuid.uuid4() values drawn so far
    next_oid,        \* ObjectIds the store has assigned so far
    trips_response,  \* the response of the latest GET /trips
    written,         \* the store was written since the latest GET /trips
    reread,          \* the latest GET /trips followed another with no write between
    aux_response     \* the response of the latest GET / or GET /weather

vars == <<store, pc, request_body, trip_request, gen_calls, gen_outcome, trip_itinerary,
          trip_dict, response, now, next_uuid, next_oid, trips_response,
          written, reread, aux_response>>

None == [none |-> TRUE]

\* ---------------------------------------------------------- JSON values
JAbsent == [t |-> "absent"]
JNull == [t |-> "null"]
JInt(i) == [t |-> "int", i |-> i]
JStr(s) == [t |-> "str", s |-> s]
JList(l) == [t |-> "list", l |-> l]

\* int("...") of the strings the bodies use; any other text is not a number
DecimalValue == ("15" :> 15) @@ ("-100" :> (-100))

\* ------------------------------------------------------------ TripRequest
RequiredFields == {"destination", "budget", "duration_days", "start_date", "interests"}

StrFields == {"destination", "start_date", "travel_style"}

IntFields == {"budget", "duration_days"}

\* pydantic's check of one value against `str`
StrOk(v) == v.t = "str"

\* pydantic's check of one value against `int`: an integer, or (its default,
\* lax mode) a string that int() reads
IntOk(v) == \/ v.t = "int"
            \/ v.t = "str" /\ v.s \in DOMAIN DecimalValue

IntOf(v) == IF v.t = "int" THEN v.i ELSE DecimalValue[v.s]

\* pydantic's check of one value against List[str]
ListOk(v) == v.t = "list"

FieldOk(f, v) ==
    IF f \in StrFields THEN StrOk(v)
    ELSE IF f \in IntFields THEN IntOk(v)
    ELSE ListOk(v)

\* the fields of a body that fail validation
FieldErrors(body) ==
    {f \in RequiredFields : body[f] = JAbsent \/ ~FieldOk(f, body[f])}
    \cup {f \in {"travel_style"} : body[f] # JAbsent /\ ~FieldOk(f, body[f])}

\* the TripRequest a valid body is parsed to
TripRequest(body) ==
    [destination |-> body.destination.s,
     budget |-> IntOf(body.budget),
     duration_days |-> IntOf(body.duration_days),
     start_date |-> body.start_date.s,
     interests |-> body.interests.l,
     travel_style |-> IF body.travel_style = JAbsent THEN "balanced"
                      ELSE body.travel_style.s]

\* ------------------------------------------------------------- datetimes
Times == [sec : 0..MaxSec, us : {0, 250000}]

Before(a, b) == a.sec < b.sec \/ (a.sec = b.sec /\ a.us < b.us)

\* datetime.isoformat() of an aware UTC datetime: the fraction is written
\* only when the microseconds are not zero
isoformat(dt) ==
    [date_time |-> dt.sec,
     fraction |-> IF dt.us = 0 THEN <<>> ELSE <<dt.us>>,
     suffix |-> "+00:00"]

\* str.replace('Z', '+00:00')
ReplaceZ(s) ==
    IF "suffix" \in DOMAIN s /\ s.suffix = "Z"
    THEN [s EXCEPT !.suffix = "+00:00"]
    ELSE s

\* datetime.fromisoformat succeeds on this text
IsoParses(s) == "suffix" \in DOMAIN s /\ s.suffix = "+00:00"

fromisoformat(s) ==
    [sec |-> s.date_time,
     us |-> IF s.fraction = <<>> THEN 0 ELSE s.fraction[1]]

\* ----------------------------------------------------------------- round
\* Python's round() of budget * 0.k: the double product is the exact
\* tenth for these magnitudes, and a tie goes to the even neighbour
RoundHalfUp(budget, k) ==
    LET n == budget * k
        q == n \div 10
        r == n % 10
    IN IF 2 * r >= 10 THEN q + 1 ELSE q

Round(budget, k) ==
    LET n == budget * k
        q == n \div 10
        r == n % 10
    IN IF 2 * r > 10 \/ (2 * r = 10 /\ q % 2 = 1) THEN q + 1 ELSE q

estimated_costs(budget) ==
    [accommodation |-> Round(budget, 4),
     food |-> Round(budget, 3),
     activities |-> Round(budget, 2),
     transport |-> Round(budget, 1)]

\* ", ".join(interests)
Join(interests) ==
    [i \in 1..(IF Len(interests) = 0 THEN 0 ELSE 2 * Len(interests) - 1) |->
        IF i % 2 = 1 THEN interests[(i + 1) \div 2] ELSE ", "]

\* what generate_trip_itinerary returns when the call succeeded
ai_response(req, text) ==
    [itinerary |-> text,
     recommendations |-> <<"Based on your interests in ">> \o Join(req.interests)
         \o <<", this itinerary is crafted to maximize your ", req.travel_style,
              " travel experience.">>,
     estimated_costs |-> estimated_costs(req.budget)]

\* (variant) the identifier drawn once, when the class is defined
uuid4Once(n) == <<"uuid", 0>>

\* str(uuid.uuid4()) of the n-th draw
uuid4(n) == <<"uuid", n>>

\* ----------------------------------------------------------- exceptions
\* str(e) of an exception raised with one message
StrOfException(msg) == <<msg>>

\* str(e) of an HTTPException: "<status_code>: <detail>"
StrOfHTTPException(status, detail) == <<status, ": ">> \o detail

\* the HTTPException generate_trip_itinerary raises for a failure `msg`
GenerationError(msg) ==
    [status |-> StatusServerError,
     detail |-> <<"Failed to generate itinerary: ">> \o StrOfException(msg)]

\* (variant) the caught HTTPException answered with a fixed phrase
RewrapHTTPGeneric(e) ==
    [status |-> StatusServerError, detail |-> <<"Internal Server Error">>]

\* create_trip_itinerary's except branch, for the HTTPException caught
RewrapHTTP(e) ==
    [status |-> StatusServerError,
     detail |-> StrOfHTTPException("500", e.detail)]

\* create_trip_itinerary's except branch, for any other exception
RewrapPlain(msg) ==
    [status |-> StatusServerError, detail |-> StrOfException(msg)]

\* ------------------------------------------------- TripItinerary records
\* (variant) budget and duration_days passed in each other's place
NewItinerarySwapped(req, ai, n, at) ==
    [id |-> uuid4(n),
     destination |-> req.destination,
     budget |-> req.duration_days,
     duration_days |-> req.budget,
     start_date |-> req.start_date,
     interests |-> req.interests,
     travel_style |-> req.travel_style,
     itinerary |-> ai.itinerary,
     recommendations |-> ai.recommendations,
     estimated_costs |-> ai.estimated_costs,
     created_at |-> at]

\* TripItinerary(...) as create_trip_itinerary builds it: id and created_at
\* come from the default factories
NewItinerary(req, ai, n, at) ==
    [id |-> uuid4(n),
     destination |-> req.destination,
     budget |-> req.budget,
     duration_days |-> req.duration_days,
     start_date |-> req.start_date,
     interests |-> req.interests,
     travel_style |-> req.travel_style,
     itinerary |-> ai.itinerary,
     recommendations |-> ai.recommendations,
     estimated_costs |-> ai.estimated_costs,
     created_at |-> at]

\* trip_itinerary.dict() with created_at turned into its ISO string
ToDict(it) == [it EXCEPT !.created_at = isoformat(it.created_at)]

ItineraryFields ==
    {"id", "destination", "budget", "duration_days", "start_date", "interests",
     "travel_style", "itinerary", "recommendations", "estimated_costs", "created_at"}

\* the fields TripItinerary(**trip) cannot do without (no default)
ItineraryRequired == ItineraryFields \ {"id", "created_at"}

\* the document insert_one stores: the dict plus the _id the driver adds
WithOid(d, n) == [f \in DOMAIN d \cup {"_id"} |-> IF f = "_id" THEN [oid |-> n] ELSE d[f]]

\* (variant) an upsert keyed by destination
InsertOneUpsert(docs, d) ==
    IF \E i \in 1..Len(docs) : docs[i].destination = d.destination
    THEN [i \in 1..Len(docs) |->
             IF docs[i].destination = d.destination THEN d ELSE docs[i]]
    ELSE Append(docs, d)

\* insert_one on the collection
InsertOne(docs, d) == Append(docs, d)

\* (variant) the cursor drained without a length
FindToListAll(docs) == docs

\* find().to_list(TripsCap)
FindToList(docs) == SubSeq(docs, 1, IF Len(docs) < TripsCap THEN Len(docs) ELSE TripsCap)

\* (variant) the fallback taken for every document
ParseTripRestamp(trip, at) ==
    [f \in ItineraryFields |->
        IF f = "created_at" THEN at ELSE trip[f]]

\* the loop body of get_all_trips for one document, read at time `at`: the
\* declared fields are kept (_id is dropped), created_at is parsed, or set
\* to the current time when it does not parse or is not there
ParseTrip(trip, at) ==
    LET created == IF "created_at" \in DOMAIN trip
                   THEN IF IsoParses(ReplaceZ(trip.created_at))
                        THEN fromisoformat(ReplaceZ(trip.created_at))
                        ELSE at
                   ELSE at
    IN [f \in ItineraryFields |->
           IF f = "created_at" THEN created ELSE trip[f]]

\* TripItinerary(**trip) raises a validation error
TripInvalid(trip) == ItineraryRequired \ DOMAIN trip # {}

\* (variant) no fallback: a created_at that does not parse fails the request
GetAllTripsStrict(docs, at) ==
    LET trips == FindToList(docs)
    IN IF \E i \in 1..Len(trips) :
             \/ TripInvalid(trips[i])
             \/ ~IsoParses(ReplaceZ(trips[i].created_at))
       THEN [status |-> StatusServerError,
             detail |-> StrOfException("Invalid isoformat string")]
       ELSE [status |-> StatusOK,
             body |-> [i \in 1..Len(trips) |-> ParseTrip(trips[i], at)]]

\* the response of get_all_trips over the store `docs`, read at time `at`
GetAllTrips(docs, at) ==
    LET trips == FindToList(docs)
    IN IF \E i \in 1..Len(trips) : TripInvalid(trips[i])
       THEN [status |-> StatusServerError,
             detail |-> StrOfException("validation error for TripItinerary")]
       ELSE [status |-> StatusOK,
             body |-> [i \in 1..Len(trips) |-> ParseTrip(trips[i], at)]]

\* --------------------------------------------------------------- inputs
ParisBody ==
    [destination |-> JStr("Paris, France"), budget |-> JInt(2000),
     duration_days |-> JInt(5), start_date |-> JStr("2025-03-01"),
     interests |-> JList(<<"Culture", "Food", "Art">>),
     travel_style |-> JStr("balanced")]

\* every field present, with the values the harness calls invalid; no
\* travel_style, so the default applies
NegativeBody ==
    [destination |-> JStr(""), budget |-> JInt(-100), duration_days |-> JInt(0),
     start_date |-> JStr("2025-03-01"), interests |-> JList(<<>>),
     travel_style |-> JAbsent]

\* the budget as a JSON string of digits
NumericStringBody == [ParisBody EXCEPT !.budget = JStr("15")]

\* test_invalid_itinerary_request: start_date and interests are missing
MissingFieldsBody ==
    [destination |-> JStr(""), budget |-> JInt(-100), duration_days |-> JInt(0),
     start_date |-> JAbsent, interests |-> JAbsent, travel_style |-> JAbsent]

\* a budget that is text but no number
WordBudgetBody == [ParisBody EXCEPT !.budget = JStr("lots")]

NullDestinationBody == [ParisBody EXCEPT !.destination = JNull]

StringInterestsBody == [ParisBody EXCEPT !.interests = JStr("Food")]

ValidBodies == {ParisBody, NegativeBody, NumericStringBody}

InvalidBodies ==
    {MissingFieldsBody, WordBudgetBody, NullDestinationBody, StringInterestsBody}

Bodies == ValidBodies \cup InvalidBodies

GenTexts == {"Day 1: arrive"}

GenErrors == {"quota exceeded"}

InsertErrors == {"connection refused"}

\* ----------------------------------------------------------------- Init
InitOn(slots, docs) ==
    /\ store = docs
    /\ pc = [r \in slots |-> "idle"]
    /\ request_body = [r \in slots |-> None]
    /\ trip_request = [r \in slots |-> None]
    /\ gen_calls = [r \in slots |-> 0]
    /\ gen_outcome = [r \in slots |-> None]
    /\ trip_itinerary = [r \in slots |-> None]
    /\ trip_dict = [r \in slots |-> None]
    /\ response = [r \in slots |-> None]
    /\ now = [sec |-> 0, us |-> 0]
    /\ next_uuid = 0
    /\ next_oid = Len(docs)
    /\ trips_response = None
    /\ written = FALSE
    /\ reread = FALSE
    /\ aux_response = None

Init == InitOn(1..MaxReq, <<>>)

\* -------------------------------------------------------------- actions
\* (variant) the body validated inside the handler's try block, so that a
\* validation error is answered like any other exception
PostReceiveInsideTry(r, body) ==
    /\ pc[r] = "idle"
    /\ request_body' = [request_body EXCEPT ![r] = body]
    /\ IF FieldErrors(body) # {}
       THEN /\ response' = [response EXCEPT ![r] = RewrapPlain("validation error for TripRequest")]
            /\ pc' = [pc EXCEPT ![r] = "done"]
            /\ UNCHANGED <<trip_request, gen_calls, next_uuid>>
       ELSE /\ trip_request' = [trip_request EXCEPT ![r] = TripRequest(body)]
            /\ next_uuid' = next_uuid + 1
            /\ gen_calls' = [gen_calls EXCEPT ![r] = @ + 1]
            /\ pc' = [pc EXCEPT ![r] = "generating"]
            /\ UNCHANGED response
    /\ UNCHANGED <<store, gen_outcome, trip_itinerary, trip_dict, now, next_oid,
                   trips_response, written, reread, aux_response>>

\* POST /generate-itinerary arrives: the body is validated; a valid one
\* enters create_trip_itinerary, which runs generate_trip_itinerary up to
\* `await chat.send_message`
PostReceive(r, body) ==
    /\ pc[r] = "idle"
    /\ request_body' = [request_body EXCEPT ![r] = body]
    /\ IF FieldErrors(body) # {}
       THEN /\ response' = [response EXCEPT ![r] =
                   [status |-> StatusValidation, errors |-> FieldErrors(body)]]
            /\ pc' = [pc EXCEPT ![r] = "done"]
            /\ UNCHANGED <<trip_request, gen_calls, next_uuid>>
       ELSE /\ trip_request' = [trip_request EXCEPT ![r] = TripRequest(body)]
            /\ next_uuid' = next_uuid + 1
            /\ gen_calls' = [gen_calls EXCEPT ![r] = @ + 1]
            /\ pc' = [pc EXCEPT ![r] = "generating"]
            /\ UNCHANGED response
    /\ UNCHANGED <<store, gen_outcome, trip_itinerary, trip_dict, now, next_oid,
                   trips_response, written, reread, aux_response>>

\* the generation call raises: generate_trip_itinerary turns it into an
\* HTTPException, which create_trip_itinerary catches and wraps again
GenFails(r, msg) ==
    /\ pc[r] = "generating"
    /\ gen_outcome' = [gen_outcome EXCEPT ![r] = [error |-> msg]]
    /\ response' = [response EXCEPT ![r] = RewrapHTTP(GenerationError(msg))]
    /\ pc' = [pc EXCEPT ![r] = "done"]
    /\ UNCHANGED <<store, request_body, trip_request, gen_calls, trip_itinerary,
                   trip_dict, now, next_uuid, next_oid, trips_response, written,
                   reread, aux_response>>

\* the generation call returns `text`: the costs are computed, the
\* TripItinerary is built and serialised, up to `await insert_one`
GenReturns(r, text) ==
    /\ pc[r] = "generating"
    /\ gen_outcome' = [gen_outcome EXCEPT ![r] = [text |-> text]]
    /\ LET it == NewItinerary(trip_request[r], ai_response(trip_request[r], text),
                              next_uuid + 1, now)
       IN /\ trip_itinerary' = [trip_itinerary EXCEPT ![r] = it]
          /\ trip_dict' = [trip_dict EXCEPT ![r] = ToDict(it)]
    /\ next_uuid' = next_uuid + 1
    /\ pc' = [pc EXCEPT ![r] = "inserting"]
    /\ UNCHANGED <<store, request_body, trip_request, gen_calls, response, now,
                   next_oid, trips_response, written, reread, aux_response>>

\* the store applies the insert; the driver adds _id to the dict
DbInsert(r) ==
    /\ pc[r] = "inserting"
    /\ trip_dict' = [trip_dict EXCEPT ![r] = WithOid(@, next_oid + 1)]
    /\ store' = InsertOne(store, WithOid(trip_dict[r], next_oid + 1))
    /\ next_oid' = next_oid + 1
    /\ written' = TRUE
    /\ pc' = [pc EXCEPT ![r] = "inserted"]
    /\ UNCHANGED <<request_body, trip_request, gen_calls, gen_outcome,
                   trip_itinerary, response, now, next_uuid, trips_response,
                   reread, aux_response>>

\* insert_one raises: the except branch answers 500 with str(e)
InsertFails(r, msg) ==
    /\ pc[r] = "inserting"
    /\ response' = [response EXCEPT ![r] = RewrapPlain(msg)]
    /\ pc' = [pc EXCEPT ![r] = "done"]
    /\ UNCHANGED <<store, request_body, trip_request, gen_calls, gen_outcome,
                   trip_itinerary, trip_dict, now, next_uuid, next_oid,
                   trips_response, written, reread, aux_response>>

\* insert_one has returned: the handler returns trip_itinerary
PostRespond(r) ==
    /\ pc[r] = "inserted"
    /\ response' = [response EXCEPT ![r] =
           [status |-> StatusOK, body |-> trip_itinerary[r]]]
    /\ pc' = [pc EXCEPT ![r] = "done"]
    /\ UNCHANGED <<store, request_body, trip_request, gen_calls, gen_outcome,
                   trip_itinerary, trip_dict, now, next_uuid, next_oid,
                   trips_response, written, reread, aux_response>>

\* GET /trips
GetTrips ==
    /\ trips_response' = GetAllTrips(store, now)
    /\ written' = FALSE
    /\ reread' = (~written /\ trips_response # None)
    /\ UNCHANGED <<store, pc, request_body, trip_request, gen_calls, gen_outcome,
                   trip_itinerary, trip_dict, response, now, next_uuid, next_oid,
                   aux_response>>

\* GET /
GetRoot ==
    /\ aux_response' = [status |-> StatusOK,
           body |-> [message |-> "WanderWise API - Your AI Travel Companion"]]
    /\ UNCHANGED <<store, pc, request_body, trip_request, gen_calls, gen_outcome,
                   trip_itinerary, trip_dict, response, now, next_uuid, next_oid,
                   trips_response, written, reread>>

\* get_weather_info: the same mock whatever it is asked
get_weather_info(destination, date) ==
    [weather_description |-> "Partly cloudy with mild temperatures",
     temperature |-> "22-28C (72-82F)",
     recommendations |-> "Pack light layers and a light jacket for evenings. Don't forget sunscreen!"]

\* datetime.now().strftime("%Y-%m-%d")
Today(at) == <<"day", at.sec>>

\* GET /weather/{destination}; `date` is <<>> when the query gives none
GetWeather(destination, date) ==
    /\ LET d == IF date = <<>> THEN Today(now) ELSE date
           w == get_weather_info(destination, d)
       IN aux_response' = [status |-> StatusOK,
              body |-> [destination |-> destination, date |-> d,
                        weather_description |-> w.weather_description,
                        temperature |-> w.temperature,
                        recommendations |-> w.recommendations]]
    /\ UNCHANGED <<store, pc, request_body, trip_request, gen_calls, gen_outcome,
                   trip_itinerary, trip_dict, response, now, next_uuid, next_oid,
                   trips_response, written, reread>>

\* time passes
Tick ==
    /\ \E t \in Times : Before(now, t) /\ now' = t
    /\ UNCHANGED <<store, pc, request_body, trip_request, gen_calls, gen_outcome,
                   trip_itinerary, trip_dict, response, next_uuid, next_oid,
                   trips_response, written, reread, aux_response>>

Slots == DOMAIN pc

\* ------------------------------------------------ concurrent requests
\* MaxReq POST requests in flight together, interleaved at their two
\* suspension points, within one second of the clock.
Next ==
    \/ \E r \in Slots, body \in Bodies : PostReceive(r, body)
    \/ \E r \in Slots, msg \in GenErrors : GenFails(r, msg)
    \/ \E r \in Slots, text \in GenTexts : GenReturns(r, text)
    \/ \E r \in Slots : DbInsert(r)
    \/ \E r \in Slots, msg \in InsertErrors : InsertFails(r, msg)
    \/ \E r \in Slots : PostRespond(r)
    \/ Tick /\ now'.sec = now.sec

Spec == Init /\ [][Next]_vars

\* ------------------------------------------- the sequential client (cap)
\* One client posting MaxReqCap well-formed requests one after the other
\* and reading GET /trips, once or more, after each, so that the store grows
\* past TripsCap. The clock moves between the first insert and the second.
InitCap == InitOn(1..MaxReqCap, <<>>)

NextCap ==
    \/ \E r \in Slots :
          /\ \A q \in Slots : q < r => pc[q] = "done"
          /\ ~written
          /\ PostReceive(r, ParisBody)
    \/ \E r \in Slots, text \in GenTexts : GenReturns(r, text)
    \/ \E r \in Slots : DbInsert(r)
    \/ \E r \in Slots : PostRespond(r)
    \/ (\A r \in Slots : pc[r] \in {"idle", "done"}) /\ GetTrips
    \/ Len(store) = 1 /\ Tick

SpecCap == InitCap /\ [][NextCap]_vars

\* ------------------------------------- a store that others wrote to too
\* The collection outlives the process and takes no schema: documents put
\* there by other writers may carry a created_at that is no ISO-8601 text,
\* one with the 'Z' designator, or lack a field.
ImportedDoc ==
    [id |-> <<"imported">>, destination |-> "Paris, France", budget |-> 900,
     duration_days |-> 3, start_date |-> "2024-12-01", interests |-> <<"Museums">>,
     travel_style |-> "budget", itinerary |-> "Day 1: Louvre",
     recommendations |-> <<"Book ahead.">>,
     estimated_costs |-> [accommodation |-> 360, food |-> 270, activities |-> 180,
                          transport |-> 90],
     created_at |-> [date_time |-> 0, fraction |-> <<>>, suffix |-> "+00:00"]]

BadStampDoc == [ImportedDoc EXCEPT !.created_at = [raw |-> "yesterday"]]

ZuluDoc == [ImportedDoc EXCEPT !.created_at.suffix = "Z"]

PartialDoc == [f \in DOMAIN ImportedDoc \ {"itinerary"} |-> ImportedDoc[f]]

LegacyDocs == {BadStampDoc, ZuluDoc, PartialDoc}

InitLegacy ==
    \E n \in 0..MaxLegacy : \E kinds \in [1..n -> LegacyDocs] :
        InitOn(1..1, [i \in 1..n |-> WithOid(kinds[i], i)])

NextLegacy ==
    \/ \E r \in Slots, body \in {ParisBody, MissingFieldsBody} : PostReceive(r, body)
    \/ \E r \in Slots, msg \in GenErrors : GenFails(r, msg)
    \/ \E r \in Slots, text \in GenTexts : GenReturns(r, text)
    \/ \E r \in Slots : DbInsert(r)
    \/ \E r \in Slots, msg \in InsertErrors : InsertFails(r, msg)
    \/ \E r \in Slots : PostRespond(r)
    \/ GetTrips
    \/ GetRoot
    \/ \E date \in {<<>>, <<"2025-03-01">>} : GetWeather("Paris, France", date)
    \/ Tick

SpecLegacy == InitLegacy /\ [][NextLegacy]_vars

\* ------------------------------------------------ the cost computation
\* One request per budget in -MaxBudget..MaxBudget, and the harness's 2000.
BudgetBody(b) == [ParisBody EXCEPT !.budget = JInt(b)]

Budgets == (-MaxBudget..MaxBudget) \cup {2000}

InitCosts == InitOn(1..1, <<>>)

NextCosts ==
    \/ \E r \in Slots, b \in Budgets : PostReceive(r, BudgetBody(b))
    \/ \E r \in Slots, text \in GenTexts : GenReturns(r, text)
    \/ \E r \in Slots : DbInsert(r)
    \/ \E r \in Slots : PostRespond(r)

SpecCosts == InitCosts /\ [][NextCosts]_vars

\* ================================================================ claims
Status(r) == IF response[r] = None THEN 0 ELSE response[r].status

\* the positions of the store holding the record request r built
DocsOf(r) ==
    {i \in 1..Len(store) :
        trip_itinerary[r] # None /\ store[i].id = trip_itinerary[r].id}

InputFields ==
    {"destination", "budget", "duration_days", "start_date", "interests", "travel_style"}

CostKeys == {"accommodation", "food", "activities", "transport"}

\* v is the integer nearest to n/10, the even one of the two when n/10 lies
\* halfway between them
NearestTenth(v, n) ==
    LET d == IF 10 * v >= n THEN 10 * v - n ELSE n - 10 * v
    IN d <= 5 /\ (d = 5 => v % 2 = 0)

\* C1: a POST whose body is valid and whose generation call and insert both
\* succeeded added exactly one record; the record is in the store only after
\* the generator returned and is there before the 200 response exists; the
\* response has a non-empty id and the request's six input fields, equal to
\* the persisted record's; a budget of 2000 gives costs 800/600/400/200.
C1_PostPersistsThenResponds ==
    \A r \in Slots :
        /\ pc[r] \in {"idle", "generating", "inserting"} => DocsOf(r) = {}
        /\ DocsOf(r) # {} => gen_outcome[r] # None /\ "text" \in DOMAIN gen_outcome[r]
        /\ pc[r] = "inserted" => Cardinality(DocsOf(r)) = 1 /\ response[r] = None
        /\ Status(r) = StatusOK =>
              /\ Cardinality(DocsOf(r)) = 1
              /\ FieldErrors(request_body[r]) = {}
              /\ Len(response[r].body.id) > 0
              /\ \A i \in DocsOf(r) : \A f \in InputFields \cup {"id", "estimated_costs"} :
                     response[r].body[f] = store[i][f]
              /\ response[r].body.destination = request_body[r].destination.s
              /\ response[r].body.budget = IntOf(request_body[r].budget)
              /\ response[r].body.duration_days = IntOf(request_body[r].duration_days)
              /\ response[r].body.start_date = request_body[r].start_date.s
              /\ response[r].body.interests = request_body[r].interests.l
              /\ response[r].body.travel_style = trip_request[r].travel_style
              /\ (response[r].body.budget = 2000 =>
                     response[r].body.estimated_costs =
                        [accommodation |-> 800, food |-> 600, activities |-> 400,
                         transport |-> 200])

C1_Witness ==
    \E r \in Slots :
        /\ Status(r) = StatusOK
        /\ request_body[r] = ParisBody
        /\ Len(store) = 2
        /\ response[r].body.estimated_costs.accommodation = 800

\* C2: for every accepted TripRequest the estimated costs have exactly the
\* keys accommodation, food, activities, transport, and each value is the
\* budget's 40, 30, 20, 10 percent rounded on its own to the nearest integer
\* (a tie to the even one).
C2_CostSplit ==
    \A r \in Slots :
        trip_itinerary[r] # None =>
            LET costs == trip_itinerary[r].estimated_costs
                b == trip_request[r].budget
            IN /\ DOMAIN costs = CostKeys
               /\ NearestTenth(costs.accommodation, 4 * b)
               /\ NearestTenth(costs.food, 3 * b)
               /\ NearestTenth(costs.activities, 2 * b)
               /\ NearestTenth(costs.transport, b)

\* a tie in two shares, rounded apart (4.5 to 4, 1.5 to 2), and a budget
\* whose rounded shares do not add up to it
C2_Witness ==
    \E r \in Slots :
        /\ trip_itinerary[r] # None
        /\ trip_request[r].budget = 15
        /\ trip_itinerary[r].estimated_costs.food = 4
        /\ trip_itinerary[r].estimated_costs.transport = 2

\* C3: every persisted record maps each cost category to a non-negative
\* integer, whatever body the schema accepted.
C3_CostsNonNegative ==
    \A i \in 1..Len(store) : \A k \in CostKeys : store[i].estimated_costs[k] >= 0

\* the JSON type of v is not the one field f declares
WrongJsonType(f, v) ==
    IF f \in StrFields THEN v.t # "str"
    ELSE IF f \in IntFields THEN v.t # "int"
    ELSE v.t # "list"

\* digits sent as a JSON string for an integer field
NumericText(f, v) == f \in IntFields /\ v.t = "str" /\ v.s \in DOMAIN DecimalValue

\* request r ended in 422 without reaching the generator or the store
Rejected(r) ==
    /\ Status(r) = StatusValidation
    /\ gen_calls[r] = 0
    /\ trip_itinerary[r] = None
    /\ trip_dict[r] = None

C5_GenerationFailure ==
    \A r \in Slots :
        /\ gen_calls[r] <= 1
        /\ (gen_outcome[r] # None /\ "error" \in DOMAIN gen_outcome[r]) =>
              /\ Status(r) = StatusServerError
              /\ \E j \in DOMAIN response[r].detail :
                     response[r].detail[j] = gen_outcome[r].error
              /\ "body" \notin DOMAIN response[r]
              /\ gen_calls[r] = 1
              /\ trip_itinerary[r] = None
              /\ trip_dict[r] = None
              /\ DocsOf(r) = {}

C5_Witness ==
    \E r, q \in Slots :
        /\ gen_outcome[r] = [error |-> "quota exceeded"]
        /\ pc[r] = "done"
        /\ Status(q) = StatusOK

\* C6: a record in the store stays there unchanged: every step leaves the
\* documents already stored as they are and adds at most one at the end, and
\* the GET routes leave the store as it is.
C6_RecordsImmutable ==
    [][/\ Len(store') \in {Len(store), Len(store) + 1}
       /\ \A i \in 1..Len(store) : store'[i] = store[i]
       /\ (GetRoot \/ GetTrips
             \/ (\E date \in {<<>>, <<"2025-03-01">>} : GetWeather("Paris, France", date)))
            => store' = store]_vars

\* a record of an earlier writer and the record of a finished POST, both
\* still in the store after each GET route was served
C6_Witness ==
    /\ Len(store) = 2
    /\ store[1] = WithOid(ZuluDoc, 1)
    /\ \A r \in Slots : Status(r) = StatusOK /\ DocsOf(r) = {2}
    /\ trips_response # None /\ trips_response.status = StatusOK
    /\ Len(trips_response.body) = 2
    /\ aux_response # None /\ "destination" \in DOMAIN aux_response.body

\* C7: GET /trips answers an empty list while nothing was written, at least
\* N records after N successful generations when N <= 100, never more than
\* 100, and each record's created_at is the timestamp generated when it was
\* created, parsed back from the stored ISO-8601 text.
C7_TripsListed ==
    [][GetTrips =>
         LET n == Cardinality({r \in Slots : Status(r) = StatusOK})
             resp == trips_response'
         IN /\ resp.status = StatusOK
            /\ Len(resp.body) <= 100
            /\ (n <= 100 => Len(resp.body) >= n)
            /\ (next_oid = 0 => resp.body = <<>>)
            /\ \A i \in DOMAIN resp.body :
                  /\ IsoParses(store[i].created_at)
                  /\ \E r \in Slots :
                        /\ trip_itinerary[r] # None
                        /\ trip_itinerary[r].id = resp.body[i].id
                        /\ trip_itinerary[r].created_at = resp.body[i].created_at]_vars

C7_Witness ==
    /\ Len(store) > 100
    /\ trips_response # None /\ trips_response.status = StatusOK
    /\ Len(trips_response.body) = 100
    /\ ~written
    /\ trips_response.body[1].created_at.us = 0
    /\ trips_response.body[2].created_at.us # 0

C9_RequestsIndependent ==
    /\ \A i, j \in 1..Len(store) : i # j => store[i].id # store[j].id
    /\ (\A r \in Slots : Status(r) = StatusOK) =>
          /\ Len(store) = Cardinality(Slots)
          /\ \A r \in Slots :
                /\ Cardinality(DocsOf(r)) = 1
                /\ \A i \in DocsOf(r) :
                      /\ \A f \in InputFields : store[i][f] = trip_request[r][f]
                      /\ trip_request[r] = TripRequest(request_body[r])
                      /\ \A k \in CostKeys :
                            NearestTenth(store[i].estimated_costs[k],
                                trip_request[r].budget *
                                  (CASE k = "accommodation" -> 4 [] k = "food" -> 3
                                     [] k = "activities" -> 2 [] OTHER -> 1))

\* all succeeded, with different bodies, the second to be received being the
\* first to be stored
C9_Witness ==
    /\ \A r \in Slots : Status(r) = StatusOK
    /\ request_body[1] = ParisBody /\ request_body[2] = NegativeBody
    /\ store[1].destination = ""
    /\ store[1].id = <<"uuid", 4>>

\* the text is no ISO-8601 timestamp, with or without the 'Z' designator
Unparseable(s) == "raw" \in DOMAIN s

\* C10: GET /trips does not reject a stored document whose created_at fails
\* to parse and does not fail because of it: the document comes back with
\* created_at set to the current time and its other fields as stored, and the
\* stored document stays as it is.
C10_BadStampFallsBack ==
    [][GetTrips =>
         LET trips == SubSeq(store, 1, IF Len(store) < 100 THEN Len(store) ELSE 100)
             resp == trips_response'
         IN /\ store' = store
            /\ resp.status \in {StatusOK, StatusServerError}
            /\ resp.status = StatusServerError =>
                  \E i \in 1..Len(trips) : ItineraryRequired \ DOMAIN trips[i] # {}
            /\ resp.status = StatusOK =>
                  /\ Len(resp.body) = Len(trips)
                  /\ \A i \in 1..Len(trips) :
                        Unparseable(trips[i].created_at) =>
                           /\ resp.body[i].created_at = now
                           /\ \A f \in ItineraryFields \ {"created_at"} :
                                 resp.body[i][f] = trips[i][f]]_vars

C10_Witness ==
    /\ trips_response # None /\ trips_response.status = StatusOK
    /\ Len(store) = 3
    /\ Unparseable(store[1].created_at)
    /\ trips_response.body[1].created_at = [sec |-> 1, us |-> 0]
    /\ Len(trips_response.body) = 3

====
